---- MODULE Spec2Model ----
(***************************************************************************)
(* State-machine model of the Snowflake service-account portals:           *)
(*   - streamlit_app_tao.py    the TAO portal (generate / rotate /         *)
(*                             download for the accounts a TAO owns);      *)
(*   - streamlit_app.py        the account-creation portal (production);   *)
(*   - streamlit_app_local.py  the same portal with a mocked Snowflake.    *)
(*                                                                         *)
(* A Streamlit script is executed from its first line to its last on every *)
(* widget interaction.  One action of the model is one such interaction:   *)
(* the script run in which the widget reports the interaction, and, where  *)
(* the handler calls st.rerun(), the run that follows it.  What survives a *)
(* run is st.session_state (per browser session); module-level data such   *)
(* as MOCK_TAO_DATA is rebuilt by every run.  The page rendered by the     *)
(* last run of a session is kept in page / portal_page.                    *)
(*                                                                         *)
(* Time is counted in ticks, TicksPerDay ticks to a day; tick 0 of a day   *)
(* is midnight.  A date ("%Y-%m-%d") is a day number (proleptic Gregorian  *)
(* ordinal, as datetime.date.toordinal).                                   *)
(***************************************************************************)
EXTENDS Integers, Sequences, FiniteSets, TLC

VARIABLES
    now,              \* the wall clock, in ticks (datetime.now())
    key_seq,          \* number of key pairs generated so far (key identity)
    session_state,    \* TAO portal: st.session_state of every browser session
    page,             \* TAO portal: what the last script run of a session rendered
    variant,          \* creation portal: "prod" (streamlit_app.py) or "local"
    portal_state,     \* creation portal: st.session_state
    sf_users,         \* creation portal: the users the remote Snowflake account holds
    portal_page,      \* creation portal: what the last script run rendered
    call              \* the last direct call of a function of the program, and its result

vars == <<now, key_seq, session_state, page, variant, portal_state, sf_users, portal_page, call>>
taoVars == <<session_state, page>>
portalVars == <<variant, portal_state, sf_users, portal_page>>

-----------------------------------------------------------------------------
(* Bounds of the model.                                                    *)

TicksPerDay == 2
MaxDays == 7
MaxKeys == 2
MaxRows == 2

-----------------------------------------------------------------------------
(* Values.                                                                 *)

None == "None"
Absent == "absent"
NoRecord == <<>>
Some(x) == <<x>>
IsSome(o) == Len(o) = 1
Get(o) == o[1]

Sessions == {"tab1", "tab2"}

-----------------------------------------------------------------------------
(* Dates and the clock.                                                    *)

IsLeap(y) == (y % 4 = 0 /\ y % 100 # 0) \/ y % 400 = 0

DaysBeforeMonth(y, m) ==
    LET cum == <<0, 31, 59, 90, 120, 151, 181, 212, 243, 273, 304, 334>>
    IN  cum[m] + (IF m > 2 /\ IsLeap(y) THEN 1 ELSE 0)

\* datetime.strptime("y-m-d", "%Y-%m-%d") as a day number
Ymd(y, m, d) ==
    LET p == y - 1
    IN  p * 365 + (p \div 4) - (p \div 100) + (p \div 400) + DaysBeforeMonth(y, m) + d

\* datetime.strptime(date, "%Y-%m-%d"): midnight of that day
StrpDate(date) == date * TicksPerDay

\* dt.strftime("%Y-%m-%d"): the time of day is dropped
StrfDate(t) == t \div TicksPerDay

\* dt + timedelta(days=n)
PlusDays(t, n) == t + n * TicksPerDay

\* (a - b).days : timedelta.days is the floor of the difference in days
DeltaDays(a, b) == (a - b) \div TicksPerDay

\* a text strptime rejects (ValueError): the day number before the first date
NotADate == Ymd(1, 1, 1) - 1

\* datetime.strptime(date, "%Y-%m-%d") returns (does not raise)
Parsable(date) == date >= Ymd(1, 1, 1)

\* calculate_days_until_expiry: 0 when strptime raises
calculate_days_until_expiry(expiry_date, t) ==
    IF Parsable(expiry_date) THEN DeltaDays(StrpDate(expiry_date), t) ELSE 0

-----------------------------------------------------------------------------
(* TAO portal: the data a script run starts from.                          *)

Account(username, purpose, environment, role, created, expiry, status, rotated, has_key) ==
    [username |-> username, purpose |-> purpose, environment |-> environment,
     snowflake_role |-> role, created_date |-> created, key_expiry |-> expiry,
     status |-> status, last_rotation |-> rotated, has_key |-> has_key]

MOCK_TAO_DATA ==
    [u \in {"john.doe", "jane.smith", "test.user"} |->
        CASE u = "john.doe" ->
               << Account("svc_tableau_prod_analytics", "Tableau Production Dashboards", "PROD",
                          "ANALYTICS_ROLE", Ymd(2024, 1, 15), Ymd(2024, 7, 15), "active",
                          Ymd(2024, 1, 15), TRUE),
                  Account("svc_powerbi_dev_analytics", "PowerBI Development Reports", "DEV",
                          "DEV_ANALYTICS_ROLE", Ymd(2024, 2, 1), Ymd(2024, 8, 1), "active",
                          Ymd(2024, 2, 1), TRUE),
                  Account("svc_python_etl_analytics", "Python ETL Scripts", "PROD",
                          "ETL_ROLE", Ymd(2023, 12, 1), Ymd(2024, 6, 20), "expiring_soon",
                          Ymd(2023, 12, 1), TRUE) >>
          [] u = "jane.smith" ->
               << Account("svc_powerbi_prod_bi", "PowerBI Production Reports", "PROD",
                          "BI_ROLE", Ymd(2024, 3, 1), Ymd(2024, 9, 1), "active",
                          Ymd(2024, 3, 1), TRUE),
                  Account("svc_datafactory_etl_bi", "Azure Data Factory ETL", "PROD",
                          "ETL_ROLE", Ymd(2023, 11, 15), Ymd(2024, 6, 10), "expiring_soon",
                          Ymd(2023, 11, 15), TRUE) >>
          [] u = "test.user" ->
               << Account("svc_test_account", "Testing Platform Features", "TEST",
                          "PUBLIC", Ymd(2024, 6, 1), Ymd(2024, 12, 1), "active",
                          Ymd(2024, 6, 1), FALSE) >> ]

TestUsers == DOMAIN MOCK_TAO_DATA

\* get_user_service_accounts
get_user_service_accounts(username) ==
    IF username \in DOMAIN MOCK_TAO_DATA THEN MOCK_TAO_DATA[username] ELSE <<>>

\* get_current_user: a missing key and None both read as "no user"
get_current_user(ss) ==
    IF ss.current_user = Absent THEN None ELSE ss.current_user


-----------------------------------------------------------------------------
(* TAO portal: key generation and the (mock) provisioning collaborator.    *)

KeySizes == {2048, 4096}

\* KeyPairGenerator.generate_key_pair: the n-th pair generated; the public key
\* is the one derived from the private key (same n, same size).
generate_key_pair(n, key_size) ==
    [private_key |-> [pem |-> "PRIVATE KEY", id |-> n, size |-> key_size],
     public_key  |-> [pem |-> "PUBLIC KEY",  id |-> n, size |-> key_size]]

\* MockSnowflakeManager() followed by is_connected = True (sidebar of main)
MockSnowflakeManager == [connection |-> None, is_connected |-> FALSE]

\* MockSnowflakeManager.update_service_account_key: False when not connected,
\* False when the body raises (raised), True otherwise.
update_service_account_key(mgr, username, public_key, raised) ==
    IF ~mgr.is_connected THEN FALSE
    ELSE IF raised THEN FALSE
    ELSE TRUE

-----------------------------------------------------------------------------
(* TAO portal: the dashboard.                                              *)

ExpiredDays == 7
ExpiringDays == 30
RotateOfferDays == 30
GraceHours == 24

\* a card that takes a key past its expiry date for one that is merely close to it
CardStatusUrgentOnly(account, days) ==
    IF days <= ExpiredDays /\ days > 0 THEN "expired"
    ELSE IF days <= ExpiringDays THEN "expiring_soon"
    ELSE account.status

\* display_service_account_card, lines 288-297: the status the card leaves
\* in the account it displays.
CardStatus(account, days) ==
    IF days <= ExpiredDays THEN "expired"
    ELSE IF days <= ExpiringDays THEN "expiring_soon"
    ELSE account.status

\* a card that offers the rotation whatever the expiry
RotateOfferedAlways(account, days) == account.has_key

\* display_service_account_card, lines 321-337: the buttons of one card.
RotateOffered(account, days) == account.has_key /\ days <= RotateOfferDays

CardButtons(account, days) ==
    IF account.has_key
    THEN (IF RotateOffered(account, days) THEN {"rotate"} ELSE {}) \cup {"download"}
    ELSE {"generate"}

display_service_account_card(account, t) ==
    LET days == calculate_days_until_expiry(account.key_expiry, t)
    IN  [account |-> [account EXCEPT !.status = CardStatus(account, days)],
         days    |-> days,
         buttons |-> CardButtons(account, days)]

CountStatus(accounts, status) ==
    Cardinality({i \in DOMAIN accounts : accounts[i].status = status})

\* main, lines 552-556: the summary metrics, taken before the cards are displayed
SummaryMetrics(accounts) ==
    [total         |-> Len(accounts),
     active        |-> CountStatus(accounts, "active"),
     expiring_soon |-> CountStatus(accounts, "expiring_soon"),
     expired       |-> CountStatus(accounts, "expired")]

NoMetrics == [total |-> 0, active |-> 0, expiring_soon |-> 0, expired |-> 0]

BlankPage ==
    [kind |-> "login", user_accounts |-> <<>>, metrics |-> NoMetrics, days |-> <<>>,
     buttons |-> {}, result |-> "none", notices |-> {}, downloads |-> {},
     base |-> NoRecord, expiry_days |-> 0, started |-> 0, computed |-> 0,
     key_update |-> "none"]

LoginPage == BlankPage

\* main, lines 544-572
DashboardPage(user, t) ==
    LET accounts == get_user_service_accounts(user)
        cards == [i \in DOMAIN accounts |-> display_service_account_card(accounts[i], t)]
    IN  IF accounts = <<>>
        THEN [BlankPage EXCEPT !.kind = "dashboard"]
        ELSE [BlankPage EXCEPT
                !.kind = "dashboard",
                !.metrics = SummaryMetrics(accounts),
                !.user_accounts = [i \in DOMAIN accounts |-> cards[i].account],
                !.days = [i \in DOMAIN accounts |-> cards[i].days],
                !.buttons = {<<i, a>> \in (DOMAIN accounts) \X {"rotate", "download", "generate"} :
                                a \in cards[i].buttons}]

\* main, lines 526-530: the placeholder the download page offers
MockPrivateKey(username) == [pem |-> "MOCK PRIVATE KEY", id |-> 0, size |-> 0, username |-> username]

\* main, lines 401-542 with no button of the page pressed
ActionPage(ss, t) ==
    LET account == Get(ss.selected_account)
        accounts == get_user_service_accounts(get_current_user(ss))
        shown == [BlankPage EXCEPT !.kind = ss.action, !.user_accounts = accounts]
    IN  CASE ss.action = "rotate" ->
                [shown EXCEPT !.days = <<calculate_days_until_expiry(account.key_expiry, t)>>]
          [] ss.action = "download" ->
                [shown EXCEPT !.downloads = {MockPrivateKey(account.username)}]
          [] OTHER -> shown

LoggedIn(ss) == get_current_user(ss) # None

\* main, line 401
ActionSelected(ss) == ss.action # None /\ IsSome(ss.selected_account)

\* main, lines 393-398: every run that gets past the login page and the
\* logout button replaces the manager by a connected mock
SidebarConnect(ss) ==
    [ss EXCEPT !.snowflake_connected = TRUE,
               !.sf_manager = Some([MockSnowflakeManager EXCEPT !.is_connected = TRUE])]

\* one script run with no button pressed: the session state it leaves
RunState(ss) == IF LoggedIn(ss) THEN SidebarConnect(ss) ELSE ss

\* one script run with no button pressed: the page it renders
Render(ss, t) ==
    IF ~LoggedIn(ss) THEN LoginPage
    ELSE IF ActionSelected(ss) THEN ActionPage(ss, t)
    ELSE DashboardPage(get_current_user(ss), t)


-----------------------------------------------------------------------------
(* TAO portal: the handlers of the generate and rotate pages.              *)

MinExpiryDays == 30
MaxExpiryDays == 365
DefaultExpiryDays == 90

\* st.number_input("... Key Expiry (days)", min_value=30, max_value=365, value=90):
\* the values the model enters
ExpiryDaysInputs ==
    {MinExpiryDays, MinExpiryDays + 1, MinExpiryDays + 2, DefaultExpiryDays, MaxExpiryDays}

ClockStart == StrpDate(Ymd(2024, 6, 10)) - TicksPerDay
ClockEnd == ClockStart + MaxDays * TicksPerDay

\* two successive datetime.now() calls: the second reads the same tick or the next
ClockReads(t) == {t2 \in {t, t + 1} : t2 <= ClockEnd}

\* an update loop that leaves the stored status as it was
RotateUpdateKeepsStatus(accounts, username, t1, t2, expiry_days) ==
    [i \in DOMAIN accounts |->
        IF accounts[i].username = username
        THEN [accounts[i] EXCEPT !.last_rotation = StrfDate(t1),
                                 !.key_expiry = StrfDate(PlusDays(t2, expiry_days))]
        ELSE accounts[i]]

\* an update loop that stamps the rotation date on every account of the user
RotateUpdateStampsAll(accounts, username, t1, t2, expiry_days) ==
    [i \in DOMAIN accounts |->
        IF accounts[i].username = username
        THEN [accounts[i] EXCEPT !.last_rotation = StrfDate(t1),
                                 !.key_expiry = StrfDate(PlusDays(t2, expiry_days)),
                                 !.status = "active"]
        ELSE [accounts[i] EXCEPT !.last_rotation = StrfDate(t1)]]

\* main, lines 493-497: the update loop of the rotate handler
RotateUpdate(accounts, username, t1, t2, expiry_days) ==
    [i \in DOMAIN accounts |->
        IF accounts[i].username = username
        THEN [accounts[i] EXCEPT !.last_rotation = StrfDate(t1),
                                 !.key_expiry = StrfDate(PlusDays(t2, expiry_days)),
                                 !.status = "active"]
        ELSE accounts[i]]

\* main, lines 423-428: the update loop of the generate handler
GenerateUpdate(accounts, username, t1, t2, expiry_days) ==
    [i \in DOMAIN accounts |->
        IF accounts[i].username = username
        THEN [accounts[i] EXCEPT !.has_key = TRUE,
                                 !.last_rotation = StrfDate(t1),
                                 !.key_expiry = StrfDate(PlusDays(t2, expiry_days)),
                                 !.status = "active"]
        ELSE accounts[i]]

\* the record of username in a list of accounts, if any
Lookup(accounts, username) ==
    LET hits == {i \in DOMAIN accounts : accounts[i].username = username}
    IN  IF hits = {} THEN NoRecord ELSE Some(accounts[CHOOSE i \in hits : TRUE])

\* main, lines 482-519: the page a press of "Generate New Key Pair" renders.
\* gen_raised: generate_key_pair raised; upd_raised: the key update raised.
RotateHandler(ss, shown, n, key_size, expiry_days, t1, t2, gen_raised, upd_raised) ==
    LET account == Get(ss.selected_account)
        keys == generate_key_pair(n, key_size)
        user_accounts == shown.user_accounts
        started == [shown EXCEPT !.expiry_days = expiry_days,
                                 !.base = Lookup(user_accounts, account.username)]
    IN  IF gen_raised
        THEN [started EXCEPT !.result = "error", !.notices = {"error"}]
        ELSE IF update_service_account_key(Get(ss.sf_manager), account.username,
                                           keys.public_key, upd_raised)
        THEN [started EXCEPT
                !.result = "success",
                !.key_update = "ok",
                !.started = t1,
                !.computed = t2,
                !.notices = {"rotated successfully", "old key valid for 24 hours"},
                !.user_accounts = RotateUpdate(user_accounts, account.username, t1, t2, expiry_days),
                !.downloads = {keys.private_key, keys.public_key}]
        ELSE [started EXCEPT !.result = "failed", !.key_update = "failed",
                             !.notices = {"failed to rotate key in Snowflake"}]

\* main, lines 413-450: the page a press of "Generate Key Pair" renders
GenerateHandler(ss, shown, n, key_size, expiry_days, t1, t2, gen_raised, upd_raised) ==
    LET account == Get(ss.selected_account)
        keys == generate_key_pair(n, key_size)
        user_accounts == shown.user_accounts
        started == [shown EXCEPT !.expiry_days = expiry_days,
                                 !.base = Lookup(user_accounts, account.username)]
    IN  IF gen_raised
        THEN [started EXCEPT !.result = "error", !.notices = {"error"}]
        ELSE IF update_service_account_key(Get(ss.sf_manager), account.username,
                                           keys.public_key, upd_raised)
        THEN [started EXCEPT
                !.result = "success",
                !.key_update = "ok",
                !.started = t1,
                !.computed = t2,
                !.notices = {"generated and updated"},
                !.user_accounts = GenerateUpdate(user_accounts, account.username, t1, t2, expiry_days),
                !.downloads = {keys.private_key, keys.public_key}]
        ELSE [started EXCEPT !.result = "failed", !.key_update = "failed",
                             !.notices = {"failed to update key in Snowflake"}]

-----------------------------------------------------------------------------
(* TAO portal: the interactions of one browser session.                    *)

\* main, lines 344-350: the session state the first run of a session leaves
InitialSessionState ==
    [current_user |-> Absent, selected_account |-> NoRecord, action |-> None,
     snowflake_connected |-> FALSE, sf_manager |-> NoRecord]

\* main, lines 364-370: "Login as TAO", then the rerun
Login(s, u) ==
    /\ ~LoggedIn(session_state[s])
    /\ LET ss == RunState([session_state[s] EXCEPT !.current_user = u])
       IN  /\ session_state' = [session_state EXCEPT ![s] = ss]
           /\ page' = [page EXCEPT ![s] = Render(ss, now)]
    /\ UNCHANGED <<call, now, key_seq, portalVars>>

\* a logout that forgets the user only
LogoutKeepsSelection(s) ==
    /\ LoggedIn(session_state[s])
    /\ LET ss == [session_state[s] EXCEPT !.current_user = None]
       IN  /\ session_state' = [session_state EXCEPT ![s] = ss]
           /\ page' = [page EXCEPT ![s] = Render(ss, now)]
    /\ UNCHANGED <<call, now, key_seq, portalVars>>

\* main, lines 387-391: "Logout", then the rerun (which ends at the login page)
Logout(s) ==
    /\ LoggedIn(session_state[s])
    /\ LET ss == [session_state[s] EXCEPT !.current_user = None,
                                          !.selected_account = NoRecord,
                                          !.action = None]
       IN  /\ session_state' = [session_state EXCEPT ![s] = ss]
           /\ page' = [page EXCEPT ![s] = Render(ss, now)]
    /\ UNCHANGED <<call, now, key_seq, portalVars>>

\* display_service_account_card, lines 321-337: a button of card i of the
\* dashboard, then the rerun.  The card stores the account it displayed.
ClickCard(s, i, a) ==
    /\ page[s].kind = "dashboard"
    /\ LoggedIn(session_state[s])
    /\ <<i, a>> \in page[s].buttons
    /\ LET ss0 == SidebarConnect(session_state[s])
           dash == DashboardPage(get_current_user(ss0), now)
       IN  /\ <<i, a>> \in dash.buttons
           /\ LET ss == [ss0 EXCEPT !.selected_account = Some(dash.user_accounts[i]),
                                    !.action = a]
              IN  /\ session_state' = [session_state EXCEPT ![s] = RunState(ss)]
                  /\ page' = [page EXCEPT ![s] = Render(RunState(ss), now)]
    /\ UNCHANGED <<call, now, key_seq, portalVars>>

\* a way back that resets the action and keeps the selected account
BackKeepsSelection(s) ==
    /\ page[s].kind \in {"generate", "rotate", "download"}
    /\ LET ss == RunState([SidebarConnect(session_state[s]) EXCEPT !.action = None])
       IN  /\ session_state' = [session_state EXCEPT ![s] = ss]
           /\ page' = [page EXCEPT ![s] = Render(ss, now)]
    /\ UNCHANGED <<call, now, key_seq, portalVars>>

\* main, lines 539-542: "Back to Service Accounts", then the rerun
Back(s) ==
    /\ page[s].kind \in {"generate", "rotate", "download"}
    /\ LET ss == RunState([SidebarConnect(session_state[s]) EXCEPT
                              !.selected_account = NoRecord, !.action = None])
       IN  /\ session_state' = [session_state EXCEPT ![s] = ss]
           /\ page' = [page EXCEPT ![s] = Render(ss, now)]
    /\ UNCHANGED <<call, now, key_seq, portalVars>>

\* any other interaction (a select box, a download button, a browser reload):
\* the script runs with no button pressed
Refresh(s) ==
    /\ session_state' = [session_state EXCEPT ![s] = RunState(session_state[s])]
    /\ page' = [page EXCEPT ![s] = Render(RunState(session_state[s]), now)]
    /\ UNCHANGED <<call, now, key_seq, portalVars>>

\* main, lines 413-450: "Generate Key Pair" on the generate page
GenerateKeyPair(s) ==
    /\ page[s].kind = "generate"
    /\ key_seq < MaxKeys
    /\ \E key_size \in KeySizes, expiry_days \in ExpiryDaysInputs,
          gen_raised \in BOOLEAN, upd_raised \in BOOLEAN, t2 \in ClockReads(now) :
         LET ss == SidebarConnect(session_state[s])
             shown == ActionPage(ss, now)
         IN  /\ gen_raised => ~upd_raised
             /\ (gen_raised \/ upd_raised) => t2 = now
             /\ session_state' = [session_state EXCEPT ![s] = ss]
             /\ page' = [page EXCEPT ![s] =
                           GenerateHandler(ss, shown, key_seq + 1, key_size, expiry_days,
                                           now, t2, gen_raised, upd_raised)]
             /\ key_seq' = IF gen_raised THEN key_seq ELSE key_seq + 1
             /\ now' = t2
    /\ UNCHANGED <<call, portalVars>>

\* main, lines 482-519: "Generate New Key Pair" on the rotate page
RotateKeyPair(s) ==
    /\ page[s].kind = "rotate"
    /\ key_seq < MaxKeys
    /\ \E key_size \in KeySizes, expiry_days \in ExpiryDaysInputs,
          gen_raised \in BOOLEAN, upd_raised \in BOOLEAN, t2 \in ClockReads(now) :
         LET ss == SidebarConnect(session_state[s])
             shown == ActionPage(ss, now)
         IN  /\ gen_raised => ~upd_raised
             /\ (gen_raised \/ upd_raised) => t2 = now
             /\ session_state' = [session_state EXCEPT ![s] = ss]
             /\ page' = [page EXCEPT ![s] =
                           RotateHandler(ss, shown, key_seq + 1, key_size, expiry_days,
                                         now, t2, gen_raised, upd_raised)]
             /\ key_seq' = IF gen_raised THEN key_seq ELSE key_seq + 1
             /\ now' = t2
    /\ UNCHANGED <<call, portalVars>>

\* time passes
Tick ==
    /\ now < ClockEnd
    /\ now' = now + 1
    /\ UNCHANGED <<call, key_seq, taoVars, portalVars>>

TaoStep(s) ==
    \/ \E u \in TestUsers : Login(s, u)
    \/ Logout(s)
    \/ \E b \in page[s].buttons : ClickCard(s, b[1], b[2])
    \/ Back(s)
    \/ Refresh(s)
    \/ GenerateKeyPair(s)
    \/ RotateKeyPair(s)


-----------------------------------------------------------------------------
(* Creation portal (streamlit_app.py, streamlit_app_local.py).             *)

Usernames == {"svc_a", "svc_b"}
Roles == {"PUBLIC", ""}
PortalExpiryInputs == {MinExpiryDays, MaxExpiryDays}

\* KeyPairGenerator.generate_key_pair() is called with its default key size
DefaultKeySize == 2048

\* SnowflakeManager.create_service_account, lines 132-135: the PEM armor and
\* the line breaks are stripped; what is left is the base64 payload
CleanKey(public_key) == [payload |-> public_key.id, size |-> public_key.size]

\* SnowflakeManager() / MockSnowflakeManager()
NewManager == [connection |-> None, is_connected |-> FALSE]

\* a connect that reports success whatever happened
connectAlwaysTrue(v, mgr, accepted) == [ok |-> TRUE, mgr |-> mgr]

\* connect: prod opens a connection unless snowflake.connector.connect raises;
\* local accepts any non-empty account, user and password
connect(v, mgr, accepted) ==
    IF ~accepted THEN [ok |-> FALSE, mgr |-> mgr]
    ELSE IF v = "prod" THEN [ok |-> TRUE, mgr |-> [mgr EXCEPT !.connection = "connection"]]
    ELSE [ok |-> TRUE, mgr |-> [mgr EXCEPT !.is_connected = TRUE]]

Usable(v, mgr) == IF v = "prod" THEN mgr.connection # None ELSE mgr.is_connected

ProvisionOutcomes == {"ok", "create_raises", "grant_raises", "no_response"}

\* cursor.execute returns or raises: connect (line 118) and execute (lines
\* 145, 150) are called without a timeout, so a statement the remote never
\* answers is waited for without end.  The mock of the local portal always
\* returns.
Responds(v, mgr, outcome) == ~(v = "prod" /\ Usable(v, mgr) /\ outcome = "no_response")

\* create_service_account: its return value, when it returns.  outcome is what
\* the remote statements do: "create_raises" (CREATE USER raises),
\* "grant_raises" (GRANT ROLE raises; only when a role is given),
\* "no_response" (CREATE USER is never answered), "ok".
create_service_account(v, mgr, username, public_key, role, outcome) ==
    IF ~Usable(v, mgr) THEN FALSE
    ELSE IF outcome = "create_raises" THEN FALSE
    ELSE IF role # "" /\ outcome = "grant_raises" THEN FALSE
    ELSE TRUE

\* create_service_account: what it leaves in the remote account.
\* CREATE USER IF NOT EXISTS keeps an existing user as it is.  The mock of the
\* local portal executes nothing.
RemoteAfterCreate(v, mgr, users, username, public_key, role, outcome) ==
    IF v # "prod" \/ ~Usable(v, mgr) \/ outcome \in {"create_raises", "no_response"} THEN users
    ELSE LET created == IF IsSome(users[username]) THEN users
                        ELSE [users EXCEPT ![username] =
                                Some([rsa_public_key |-> CleanKey(public_key), roles |-> {}])]
         IN  IF role # "" /\ outcome = "ok"
             THEN [created EXCEPT ![username] =
                      Some([Get(@) EXCEPT !.roles = @ \cup {role}])]
             ELSE created

\* main, lines 249-261 / 351-363: the record of a new account
AccountData(username, role, keys, t1, t2, expiry_days) ==
    [username |-> username, purpose |-> "Tableau", role |-> role,
     requestor_name |-> "John Doe", requestor_email |-> "john.doe@company.com",
     business_justification |-> "",
     private_key |-> keys.private_key, public_key |-> keys.public_key,
     created_date |-> t1, expiry_date |-> PlusDays(t2, expiry_days),
     created_in_snowflake |-> FALSE]

\* main, lines 410-420: one row of the Account Details table
DisplayRow(acc) ==
    [Username |-> acc.username, Purpose |-> acc.purpose, Role |-> acc.role,
     Requestor |-> acc.requestor_name,
     CreatedDate |-> StrfDate(acc.created_date), Expires |-> StrfDate(acc.expiry_date),
     SnowflakeStatus |-> IF acc.created_in_snowflake THEN "Created" ELSE "Pending"]

\* main, lines 391-423: the Account Status tab
StatusTable(accounts) == [i \in DOMAIN accounts |-> DisplayRow(accounts[i])]

\* a manifest row that copies the whole account record
SummaryRowWholeAccount(acc) == acc

\* create_download_zip, lines 166-172: one row of account_summary.csv
SummaryRow(acc) ==
    [username |-> acc.username, created_date |-> acc.created_date,
     role |-> acc.role, purpose |-> acc.purpose]

\* create_download_zip: the manifest and one .pem file per account
create_download_zip(accounts) ==
    [summary |-> [i \in DOMAIN accounts |-> SummaryRow(accounts[i])],
     files   |-> [i \in DOMAIN accounts |->
                    [filename |-> accounts[i].username, data |-> accounts[i].private_key]]]

NoZip == <<>>

BlankPortalPage ==
    [op |-> "none", result |-> "none", username |-> "", provisioning |-> "none",
     downloads |-> {}, zip |-> NoZip, status_table |-> <<>>, confirm_shown |-> FALSE]

\* the script run is inside a call that has not returned: Streamlit starts no
\* other run of the session before it does
Blocked == portal_page.provisioning = "pending"

\* every run renders the Account Status tab from the session's accounts
PortalPage(ps, shown) == [shown EXCEPT !.status_table = StatusTable(ps.accounts_created)]

\* a handler that drops the record when the collaborator reported failure
AppendAccountIfProvisioned(accounts, record, attempted, created) ==
    IF attempted /\ ~created THEN accounts ELSE Append(accounts, record)

\* main, line 271: the record joins the session's accounts whatever the
\* collaborator answered
AppendAccount(accounts, record, attempted, created) == Append(accounts, record)

\* main, lines 281-296: the download buttons of a created account
AccountDownloads(keys, attempted, created) == {keys.private_key, keys.public_key}

\* main, lines 189-193
InitialPortalState ==
    [accounts_created |-> <<>>, snowflake_connected |-> FALSE, sf_manager |-> NoRecord]

\* main, lines 205-212: "Connect to Snowflake"
Connect ==
    /\ ~Blocked
    /\ \E accepted \in BOOLEAN :
         LET r == connect(variant, NewManager, accepted)
             ps == IF r.ok
                   THEN [portal_state EXCEPT !.snowflake_connected = TRUE,
                                             !.sf_manager = Some(r.mgr)]
                   ELSE portal_state
         IN  /\ portal_state' = ps
             /\ portal_page' = PortalPage(ps, [BlankPortalPage EXCEPT
                                   !.op = "connect",
                                   !.result = IF r.ok THEN "connected" ELSE "failed"])
    /\ UNCHANGED <<call, now, key_seq, variant, sf_users, taoVars>>

\* main, lines 242-301: "Generate Account & Keys"
GenerateAccount ==
    /\ ~Blocked
    /\ key_seq < MaxKeys
    /\ \E username \in Usernames \cup {""}, role \in Roles, expiry_days \in PortalExpiryInputs,
          gen_raised \in BOOLEAN, outcome \in ProvisionOutcomes, t2 \in ClockReads(now) :
         IF username = ""
         THEN /\ role = "" /\ expiry_days = MinExpiryDays /\ ~gen_raised
              /\ outcome = "ok" /\ t2 = now
              /\ portal_page' = PortalPage(portal_state, [BlankPortalPage EXCEPT
                                    !.op = "single", !.result = "missing fields"])
              /\ UNCHANGED <<now, key_seq, portal_state, sf_users>>
         ELSE IF gen_raised
         THEN /\ role = "" /\ expiry_days = MinExpiryDays /\ outcome = "ok" /\ t2 = now
              /\ portal_page' = PortalPage(portal_state, [BlankPortalPage EXCEPT
                                    !.op = "single", !.result = "error", !.username = username])
              /\ UNCHANGED <<now, key_seq, portal_state, sf_users>>
         ELSE LET keys == generate_key_pair(key_seq + 1, DefaultKeySize)
                  data == AccountData(username, role, keys, now, t2, expiry_days)
                  attempted == portal_state.snowflake_connected
                  mgr == IF attempted THEN Get(portal_state.sf_manager) ELSE NewManager
                  created == attempted /\
                             create_service_account(variant, mgr, username, keys.public_key,
                                                    role, outcome)
                  record == [data EXCEPT !.created_in_snowflake = created]
                  ps == [portal_state EXCEPT
                           !.accounts_created = AppendAccount(@, record, attempted, created)]
              IN  /\ ~attempted => outcome = "ok"
                  /\ (outcome = "grant_raises") => (role # "" /\ variant = "prod")
                  /\ (outcome = "no_response") => variant = "prod"
                  /\ key_seq' = key_seq + 1
                  /\ now' = t2
                  /\ IF attempted /\ ~Responds(variant, mgr, outcome)
                     THEN \* line 265 does not return: nothing after it is executed
                          /\ portal_page' = [portal_page EXCEPT
                                !.op = "single",
                                !.username = username,
                                !.provisioning = "pending",
                                !.result = "creating service account"]
                          /\ UNCHANGED <<portal_state, sf_users>>
                     ELSE /\ portal_state' = ps
                          /\ sf_users' = IF attempted
                                         THEN RemoteAfterCreate(variant, mgr, sf_users, username,
                                                                keys.public_key, role, outcome)
                                         ELSE sf_users
                          /\ portal_page' = PortalPage(ps, [BlankPortalPage EXCEPT
                                !.op = "single",
                                !.username = username,
                                !.provisioning = IF ~attempted THEN "none"
                                                 ELSE IF created THEN "ok" ELSE "failed",
                                !.result = IF ~attempted THEN "created locally"
                                           ELSE IF created THEN "created in Snowflake"
                                           ELSE "keys generated but failed to create account",
                                !.downloads = AccountDownloads(keys, attempted, created)])
    /\ UNCHANGED <<call, variant, taoVars>>


\* the rows of an uploaded CSV: expiry_days is <<n>> for a number n and <<>>
\* for a cell timedelta(days=...) rejects; outcome is what the remote does
\* with the row's statements
BulkExpiryInputs == {<<>>, <<-1>>, <<0>>, <<DefaultExpiryDays>>}

BulkJobs ==
    [username : Usernames, role : {"PUBLIC"}, expiry_days : BulkExpiryInputs,
     outcome : {"ok", "create_raises"}]

BulkInputs == UNION {[1..n -> BulkJobs] : n \in 1..MaxRows}

\* main, lines 342-371: the loop over the rows, from row k on.  st carries
\* bulk_accounts, the session's accounts_created, the remote users and the
\* number of keys generated; failed is set when a row raises.
RECURSIVE BulkLoop(_, _, _, _, _, _, _, _)
BulkLoop(v, connected, mgr, rows, k, t1, t2, st) ==
    IF k > Len(rows) THEN st
    ELSE LET row == rows[k]
             keys == generate_key_pair(st.key_seq + 1, DefaultKeySize)
         IN  IF row.expiry_days = <<>>
             THEN [st EXCEPT !.key_seq = @ + 1, !.failed = TRUE]
             ELSE LET data == AccountData(row.username, row.role, keys, t1, t2,
                                          row.expiry_days[1])
                      created == connected /\
                                 create_service_account(v, mgr, row.username, keys.public_key,
                                                        row.role, row.outcome)
                      record == [data EXCEPT !.created_in_snowflake = created]
                      bulk == Append(st.bulk_accounts, record)
                  IN  BulkLoop(v, connected, mgr, rows, k + 1, t1, t2,
                        [st EXCEPT
                           !.key_seq = @ + 1,
                           !.bulk_accounts = bulk,
                           !.sf_users = IF connected
                                        THEN RemoteAfterCreate(v, mgr, @, row.username,
                                                               keys.public_key, row.role,
                                                               row.outcome)
                                        ELSE @,
                           \* streamlit_app.py line 371 extends inside the loop,
                           \* streamlit_app_local.py line 392 after it
                           !.accounts_created = IF v = "prod" THEN @ \o bulk ELSE @])

\* main, lines 336-386: "Create All Accounts"
CreateAllAccounts ==
    /\ ~Blocked
    /\ \E rows \in BulkInputs, t2 \in ClockReads(now) :
         LET connected == portal_state.snowflake_connected
             mgr == IF connected THEN Get(portal_state.sf_manager) ELSE NewManager
             done == BulkLoop(variant, connected, mgr, rows, 1, now, t2,
                        [bulk_accounts |-> <<>>,
                         accounts_created |-> portal_state.accounts_created,
                         sf_users |-> sf_users, key_seq |-> key_seq, failed |-> FALSE])
             accounts == IF variant = "prod" \/ done.failed
                         THEN done.accounts_created
                         ELSE done.accounts_created \o done.bulk_accounts
             ps == [portal_state EXCEPT !.accounts_created = accounts]
         IN  /\ key_seq + Len(rows) <= MaxKeys
             /\ ~connected => \A k \in DOMAIN rows : rows[k].outcome = "ok"
             /\ portal_state' = ps
             /\ sf_users' = done.sf_users
             /\ key_seq' = done.key_seq
             /\ now' = t2
             /\ portal_page' = PortalPage(ps, [BlankPortalPage EXCEPT
                   !.op = "bulk",
                   !.result = IF done.failed THEN "error processing file"
                              ELSE "all accounts created",
                   !.zip = IF done.failed THEN NoZip
                           ELSE Some(create_download_zip(done.bulk_accounts))])
    /\ UNCHANGED <<call, variant, taoVars>>

\* main, lines 425-433: "Download All Account Data"
DownloadAll ==
    /\ ~Blocked
    /\ portal_state.accounts_created # <<>>
    /\ portal_page' = PortalPage(portal_state, [BlankPortalPage EXCEPT
           !.op = "download all",
           !.zip = Some(create_download_zip(portal_state.accounts_created))])
    /\ UNCHANGED <<call, now, key_seq, variant, portal_state, sf_users, taoVars>>

\* a handler that clears as soon as the button is pressed
ClearAllOnButton(ps, button, confirmed) ==
    IF button
    THEN [ps EXCEPT !.accounts_created = <<>>, !.snowflake_connected = FALSE]
    ELSE ps

\* main, lines 454-458: the session state a run leaves, given what st.button
\* and st.checkbox return in it.  The checkbox is created inside the branch of
\* the button.
ClearAllHandler(ps, button, confirmed) ==
    IF button /\ confirmed
    THEN [ps EXCEPT !.accounts_created = <<>>, !.snowflake_connected = FALSE]
    ELSE ps

\* main, line 454: "Clear All Session Data" is pressed.  The button reports the
\* press in this run only; the checkbox is created by this run, unticked.
ClearAllSessionData ==
    /\ ~Blocked
    /\ LET ps == ClearAllHandler(portal_state, TRUE, FALSE)
       IN  /\ portal_state' = ps
           /\ portal_page' = PortalPage(ps, [BlankPortalPage EXCEPT
                  !.op = "clear all", !.confirm_shown = TRUE])
    /\ UNCHANGED <<call, now, key_seq, variant, sf_users, taoVars>>

\* main, line 455: the checkbox the last run showed is ticked.  The run this
\* starts finds the button not pressed and never reaches the checkbox.
ConfirmClear ==
    /\ ~Blocked
    /\ portal_page.confirm_shown
    /\ LET ps == ClearAllHandler(portal_state, FALSE, TRUE)
       IN  /\ portal_state' = ps
           /\ portal_page' = PortalPage(ps, [BlankPortalPage EXCEPT !.op = "confirm clear"])
    /\ UNCHANGED <<call, now, key_seq, variant, sf_users, taoVars>>

\* any other interaction: the script runs with no button pressed
PortalRefresh ==
    /\ ~Blocked
    /\ portal_page' = PortalPage(portal_state, BlankPortalPage)
    /\ UNCHANGED <<call, now, key_seq, variant, portal_state, sf_users, taoVars>>

PortalStep ==
    \/ Connect
    \/ GenerateAccount
    \/ CreateAllAccounts
    \/ DownloadAll
    \/ ClearAllSessionData
    \/ ConfirmClear
    \/ PortalRefresh

-----------------------------------------------------------------------------
(* Direct calls of the program's functions.                                *)

NoCall ==
    [fn |-> "none", account |-> NoRecord, at |-> 0, days |-> 0, status |-> "none",
     key_size |-> 0, raised |-> FALSE, keys |-> NoRecord]

\* every account of MOCK_TAO_DATA
StoredAccounts ==
    UNION {{MOCK_TAO_DATA[u][i] : i \in DOMAIN MOCK_TAO_DATA[u]} : u \in TestUsers}

\* the accounts a card is displayed for: the stored ones, and the stored ones
\* with a key_expiry that is not a date
CardInputs ==
    StoredAccounts \cup {[a EXCEPT !.key_expiry = NotADate] : a \in StoredAccounts}

\* display_service_account_card(account, index) at the current time
CallCard ==
    /\ \E account \in CardInputs :
         LET card == display_service_account_card(account, now)
         IN  call' = [NoCall EXCEPT !.fn = "display_service_account_card",
                                    !.account = Some(account),
                                    !.at = now,
                                    !.days = card.days,
                                    !.status = card.account.status]
    /\ UNCHANGED <<now, key_seq, taoVars, portalVars>>

\* the key sizes generate_key_pair is called with: those the pages offer, one
\* more RSA modulus size, and a number that is no key size
KeySizeInputs == KeySizes \cup {0, 3072}

\* rsa.generate_private_key(public_exponent=65537, key_size=...) raises
\* ValueError for a size no RSA key can have; generate_key_pair logs and
\* re-raises (lines 206-208)
RsaRejects(key_size) == key_size <= 0

\* KeyPairGenerator.generate_key_pair(key_size)
CallGenerateKeyPair ==
    /\ key_seq < MaxKeys
    /\ \E key_size \in KeySizeInputs :
         IF RsaRejects(key_size)
         THEN /\ call' = [NoCall EXCEPT !.fn = "generate_key_pair", !.at = now,
                                        !.key_size = key_size, !.raised = TRUE]
              /\ UNCHANGED key_seq
         ELSE /\ call' = [NoCall EXCEPT !.fn = "generate_key_pair", !.at = now,
                                        !.key_size = key_size,
                                        !.keys = Some(generate_key_pair(key_seq + 1, key_size))]
              /\ key_seq' = key_seq + 1
    /\ UNCHANGED <<now, taoVars, portalVars>>

-----------------------------------------------------------------------------
(* Specifications.                                                         *)

Init ==
    /\ now = ClockStart
    /\ key_seq = 0
    /\ session_state = [s \in Sessions |-> InitialSessionState]
    /\ page = [s \in Sessions |-> LoginPage]
    /\ variant \in {"prod", "local"}
    /\ portal_state = InitialPortalState
    /\ sf_users = [u \in Usernames |-> NoRecord]
    /\ portal_page = BlankPortalPage
    /\ call = NoCall

\* the TAO portal does not read the creation portal's variant
InitTao == Init /\ variant = "prod"

\* one TAO session and the clock
Next == TaoStep("tab1") \/ Tick

Spec == InitTao /\ [][Next]_vars

\* two TAO sessions, interleaved run by run
NextConc == \E s \in Sessions : TaoStep(s)

SpecConc == InitTao /\ [][NextConc]_vars

\* the creation portal, in either variant
NextPortal == PortalStep

SpecPortal == Init /\ [][NextPortal]_vars

\* the creation portal with every enabled interaction eventually made: a
\* script run that Streamlit has started runs on until its handler returns
SpecPortalLive == Init /\ [][NextPortal]_vars /\ WF_vars(NextPortal)

\* the functions of the TAO portal called directly, as time passes
NextCalls == CallCard \/ CallGenerateKeyPair \/ Tick

SpecCalls == InitTao /\ [][NextCalls]_vars


-----------------------------------------------------------------------------
(* Properties of the TAO portal.                                           *)

\* the grace window the rotate page promises, in ticks
GraceTicks == (GraceHours * TicksPerDay) \div 24

\* the last run of session s was a press of the rotate (generate) button
RotateRan(s) == page[s].kind = "rotate" /\ page[s].result # "none"
GenerateRan(s) == page[s].kind = "generate" /\ page[s].result # "none"
RotateDone(s) == page[s].kind = "rotate" /\ page[s].result = "success"

\* the account the page of session s is about, as the run left it
PageAccount(s) ==
    Get(Lookup(page[s].user_accounts, Get(session_state[s].selected_account).username))

\* the status a card displayed at time t leaves in account r
Classified(r, t) == CardStatus(r, calculate_days_until_expiry(r.key_expiry, t))

\* C1: a successful rotate at time t records previousPublicKeyPEM = the public
\* key that was current before the rotation and previousKeyGraceUntil = t + 24h.
C1_RotateRecordsPreviousKey ==
    \A s \in Sessions :
        RotateDone(s) =>
            LET r == PageAccount(s)
                b == Get(page[s].base)
            IN  /\ {"previousPublicKeyPEM", "previousKeyGraceUntil"} \subseteq DOMAIN r
                /\ "publicKeyPEM" \in DOMAIN b
                /\ r.previousPublicKeyPEM = b.publicKeyPEM
                /\ r.previousKeyGraceUntil = page[s].started + GraceTicks

\* C2: a grace window granted at rotation time t is kept: the rotated record
\* carries a previousKeyGraceUntil that is >= t and <= t + 24h for as long as
\* the rotation is on record, whatever is done later.
C2_GraceWindowKept ==
    \A s \in Sessions :
        "old key valid for 24 hours" \in page[s].notices =>
            LET r == PageAccount(s)
            IN  /\ "previousKeyGraceUntil" \in DOMAIN r
                /\ page[s].started <= r.previousKeyGraceUntil
                /\ r.previousKeyGraceUntil <= page[s].started + GraceTicks

\* the rotate page of session s reported the key as expired (main, line 457)
RotatedFromExpired(s) == RotateDone(s) /\ page[s].days[1] <= 0

\* C3 (as claimed): for every validityDays in [30, 365], a rotation of an expired
\* key leaves a record that classifies as active right after the rotation, with
\* key_expiry = rotation date + validityDays.
C3_RotateExpiredYieldsActive ==
    \A s \in Sessions :
        RotatedFromExpired(s) =>
            LET r == PageAccount(s)
            IN  /\ page[s].expiry_days \in MinExpiryDays..MaxExpiryDays
                /\ Classified(r, page[s].computed) = "active"
                /\ r.key_expiry = StrfDate(page[s].computed) + page[s].expiry_days

\* C3 (amended): every card of an expired key offers the rotation, and for
\* validityDays in [32, 365] the rotated record classifies as active right after
\* the rotation, with key_expiry = the date the handler computed it on +
\* validityDays; with 30 days the card puts it in expiring_soon at once (with
\* 31 days too, unless the handler ran at midnight sharp).
C3_RotateExpiredYieldsActiveFrom32 ==
    \A s \in Sessions :
        /\ page[s].kind = "dashboard" =>
              \A i \in DOMAIN page[s].days :
                  (page[s].user_accounts[i].has_key /\ page[s].days[i] <= 0)
                      => <<i, "rotate">> \in page[s].buttons
        /\ RotatedFromExpired(s) =>
              LET r == PageAccount(s)
              IN  /\ r.key_expiry = StrfDate(page[s].computed) + page[s].expiry_days
                  /\ page[s].expiry_days >= ExpiringDays + 2
                        => Classified(r, page[s].computed) = "active"
                  /\ page[s].expiry_days <= ExpiringDays
                        => Classified(r, page[s].computed) = "expiring_soon"

C3_Witness ==
    /\ RotatedFromExpired("tab1")
    /\ page["tab1"].expiry_days = MaxExpiryDays
    /\ Get(page["tab1"].base).status = "expiring_soon"

\* the tier of a key with the given number of whole days left
Tier(days) ==
    IF days <= 0 THEN "Expired" ELSE IF days <= ExpiringDays THEN "ExpiringSoon" ELSE "Active"

\* C4 (as claimed): the rotation can be started for a key in every tier.
C4_RotateOfferedInEveryTier ==
    \A s \in Sessions :
        page[s].kind = "dashboard" =>
            \A i \in DOMAIN page[s].days :
                page[s].user_accounts[i].has_key => <<i, "rotate">> \in page[s].buttons

\* C4 (amended): the rotation can be started exactly for the keys in the
\* ExpiringSoon and Expired tiers (at most 30 whole days left), not for an
\* Active one; a rotation that succeeds stores status active and a fresh
\* key_expiry.
C4_RotateOfferedWhenExpiring ==
    \A s \in Sessions :
        /\ page[s].kind = "dashboard" =>
              \A i \in DOMAIN page[s].days :
                  <<i, "rotate">> \in page[s].buttons
                      <=> (page[s].user_accounts[i].has_key /\ Tier(page[s].days[i]) # "Active")
        /\ page[s].kind = "rotate" => Tier(page[s].days[1]) # "Active"
        /\ RotateDone(s) =>
              LET r == PageAccount(s)
              IN  /\ r.status = "active"
                  /\ r.key_expiry = StrfDate(page[s].computed) + page[s].expiry_days

C4_Witness ==
    /\ RotateDone("tab1")
    /\ Tier(page["tab1"].days[1]) = "ExpiringSoon"
    /\ Get(page["tab1"].base).status = "active"

\* C5: when the key update reports failure during a rotate or a first key
\* generation, the record is still advanced (last rotation, expiry, key marked
\* present) and the new private key is still offered for download.
C5_FailedUpdateStillDelivers ==
    \A s \in Sessions :
        ((RotateRan(s) \/ GenerateRan(s)) /\ page[s].key_update = "failed") =>
            LET r == PageAccount(s)
            IN  /\ r.has_key
                /\ r.last_rotation = StrfDate(now)
                /\ \E k \in page[s].downloads : k.pem = "PRIVATE KEY"


-----------------------------------------------------------------------------
(* Properties of the creation portal.                                      *)

Accounts == portal_state.accounts_created

SingleCreateRan == portal_page.op = "single" /\ portal_page.username # ""

\* C6: when the collaborator reports failure during a single create, the result
\* is a partial success: the record is still added, with created_in_snowflake =
\* false, and the generated private key is still offered to the caller.
C6_FailedProvisioningIsPartialSuccess ==
    (SingleCreateRan /\ portal_page.provisioning = "failed") =>
        /\ portal_page.result = "keys generated but failed to create account"
        /\ Accounts # <<>>
        /\ LET last == Accounts[Len(Accounts)]
           IN  /\ last.username = portal_page.username
               /\ last.created_in_snowflake = FALSE
               /\ last.private_key \in portal_page.downloads
               /\ last.private_key.pem = "PRIVATE KEY"
               /\ last.private_key.id = key_seq

C6_Witness ==
    /\ SingleCreateRan
    /\ portal_page.provisioning = "failed"
    /\ portal_state.snowflake_connected
    /\ Len(Accounts) = 1

\* C7: the registry holds at most one record per username.
C7_UsernameUnique ==
    \A i, j \in DOMAIN Accounts :
        i # j => Accounts[i].username # Accounts[j].username

\* C8: once the call that produced a private key has returned, no stored state
\* holds that private key.
C8_NoStoredPrivateKey ==
    \A i \in DOMAIN Accounts :
        "private_key" \in DOMAIN Accounts[i] => Accounts[i].private_key.pem # "PRIVATE KEY"

\* C9: neither the Account Status table nor the account_summary.csv manifest
\* ever has a private-key field.
C9_ListingsCarryNoPrivateKey ==
    /\ \A i \in DOMAIN portal_page.status_table :
          "private_key" \notin DOMAIN portal_page.status_table[i]
    /\ \A z \in DOMAIN portal_page.zip :
          \A i \in DOMAIN portal_page.zip[z].summary :
              "private_key" \notin DOMAIN portal_page.zip[z].summary[i]

C9_Witness ==
    /\ IsSome(portal_page.zip)
    /\ Len(Get(portal_page.zip).summary) = 2
    /\ Len(portal_page.status_table) = 2
    /\ \A i \in DOMAIN Accounts : Accounts[i].private_key.pem = "PRIVATE KEY"

-----------------------------------------------------------------------------
(* Two TAO sessions.                                                       *)

\* C10: two rotations of the same username are serialized: one of them starts
\* from the record as the other left it.
C10_RotationsSerialized ==
    \A s, t \in Sessions :
        (/\ s # t
         /\ RotateDone(s)
         /\ RotateDone(t)
         /\ PageAccount(s).username = PageAccount(t).username)
            => \/ Get(page[s].base) = PageAccount(t)
               \/ Get(page[t].base) = PageAccount(s)

-----------------------------------------------------------------------------
(* Properties of the classification.                                       *)

CardCalled == call.fn = "display_service_account_card"

Tiers == {"active", "expiring_soon", "expired"}

Rank(status) ==
    CASE status = "active" -> 1
      [] status = "expiring_soon" -> 2
      [] status = "expired" -> 3
      [] OTHER -> 0

\* C11: for every expiry date and every time, the status a card assigns is
\* expired exactly when now >= expiresAt, expiring_soon exactly when
\* 0 < expiresAt - now <= 30 days, and active otherwise; the 7-day threshold
\* never changes the status.
C11_StatusFollowsExpiry ==
    (CardCalled /\ Parsable(Get(call.account).key_expiry)) =>
        LET left == StrpDate(Get(call.account).key_expiry) - call.at
        IN  /\ (call.status = "expired") <=> (left <= 0)
            /\ (call.status = "expiring_soon") <=>
                  (0 < left /\ left <= ExpiringDays * TicksPerDay)
            /\ (call.status = "active") <=> (left > ExpiringDays * TicksPerDay)

\* C12: the classification is total (every account, one with an unparsable
\* key_expiry included, gets one of the three tiers) and monotonic (a later
\* card for the same record never shows an earlier tier than the card before).
C12_ClassificationTotalMonotonic ==
    [][/\ call'.fn = "display_service_account_card" => call'.status \in Tiers
       /\ (/\ CardCalled
           /\ call'.fn = "display_service_account_card"
           /\ call'.account = call.account)
              => Rank(call'.status) >= Rank(call.status)]_vars

C12_Witness ==
    /\ CardCalled
    /\ Get(call.account).status = "active"
    /\ call.status = "expiring_soon"
    /\ call.at > ClockStart

\* C13: whenever the dashboard shows the summary metrics, each count is the
\* number of the user's accounts the cards classify into that tier in the same
\* run; no count comes from a stored status.
C13_MetricsFollowClassifier ==
    \A s \in Sessions :
        (page[s].kind = "dashboard" /\ page[s].user_accounts # <<>>) =>
            LET shown == page[s].user_accounts
            IN  /\ page[s].metrics.total = Len(shown)
                /\ page[s].metrics.active = CountStatus(shown, "active")
                /\ page[s].metrics.expiring_soon = CountStatus(shown, "expiring_soon")
                /\ page[s].metrics.expired = CountStatus(shown, "expired")

-----------------------------------------------------------------------------
(* Properties of the records of the creation portal.                       *)

\* C14: whenever a record has created_in_snowflake = true, the remote account
\* holds for that username exactly the public key stored in the record, also
\* after a create for a username that already exists remotely.
C14_RemoteHoldsRecordedKey ==
    variant = "prod" =>
        \A i \in DOMAIN Accounts :
            Accounts[i].created_in_snowflake =>
                /\ IsSome(sf_users[Accounts[i].username])
                /\ Get(sf_users[Accounts[i].username]).rsa_public_key
                      = CleanKey(Accounts[i].public_key)

\* the whole days between the two dates of a record
ValidityDays(acc) == DeltaDays(acc.expiry_date, acc.created_date)

\* C15: nothing is persisted for a validityDays outside [30, 365], whatever the
\* path into generate (bulk rows included): every stored record has a validity
\* within the range.
C15_OutOfRangeValidityNotStored ==
    \A i \in DOMAIN Accounts :
        ValidityDays(Accounts[i]) \in MinExpiryDays..MaxExpiryDays

\* C16: every stored record has expiry_date strictly later than created_date.
C16_ExpiryAfterCreation ==
    \A i \in DOMAIN Accounts : Accounts[i].expiry_date > Accounts[i].created_date

\* C17: for validityDays in [30, 365] the record generate produces has
\* expiry_date - created_date equal to exactly validityDays days.
C17_ExactValidity ==
    \A i \in DOMAIN Accounts :
        ValidityDays(Accounts[i]) \in MinExpiryDays..MaxExpiryDays =>
            Accounts[i].expiry_date - Accounts[i].created_date
                = ValidityDays(Accounts[i]) * TicksPerDay

\* C18: generate_key_pair called with a key size other than 2048 or 4096 fails
\* and returns no key pair.
C18_OtherKeySizeRejected ==
    (call.fn = "generate_key_pair" /\ call.key_size \notin KeySizes) =>
        /\ call.raised
        /\ call.keys = NoRecord

\* C19: every create call completes: a call that waits for the remote account
\* stops waiting (times out) and returns.
C19_CallsComplete == Blocked ~> ~Blocked

-----------------------------------------------------------------------------
(* Properties of bulk creation and of the provisioning call.               *)

\* the step is a "Create All Accounts" run that got through all its rows
BulkCompleted == portal_page'.op = "bulk" /\ portal_page'.result = "all accounts created"

\* the step is a "Create All Accounts" run that stopped at a row that raised
BulkFailed == portal_page'.op = "bulk" /\ portal_page'.result = "error processing file"

\* C21: a bulk creation over n rows that completes adds exactly n records to
\* the session's accounts, one per row and in the order of the rows, in the
\* production portal and in the local one alike.
C21_BulkAddsOnePerRow ==
    [][BulkCompleted =>
          LET rows == Get(portal_page'.zip).summary
              after == portal_state'.accounts_created
          IN  /\ Len(after) = Len(Accounts) + Len(rows)
              /\ \A k \in DOMAIN rows :
                    /\ Len(Accounts) + k \in DOMAIN after
                    /\ after[Len(Accounts) + k].username = rows[k].username
                    /\ after[Len(Accounts) + k].private_key.id = key_seq + k]_vars

\* C22: when a bulk creation fails on row k, every earlier row of the batch
\* (its key was generated, its account possibly provisioned) has its record,
\* with its private key, in the session's accounts.
C22_EarlierRowsKeptOnFailure ==
    [][BulkFailed =>
          \A id \in (key_seq + 1)..(key_seq' - 1) :
              \E i \in DOMAIN portal_state'.accounts_created :
                  portal_state'.accounts_created[i].private_key.id = id]_vars

\* the usernames of the session's accounts
StoredUsernames == {Accounts[i].username : i \in DOMAIN Accounts}

\* C23: the record is written before the collaborator is invoked (while the
\* call is in flight the record is already stored), and a single create for a
\* username that is already stored fails without a call to the collaborator.
C23_RecordWrittenBeforeProvisioning ==
    /\ [](Blocked => \E i \in DOMAIN Accounts :
                        /\ Accounts[i].username = portal_page.username
                        /\ Accounts[i].private_key.id = key_seq)
    /\ [][(/\ portal_page'.op = "single"
           /\ portal_page' # portal_page
           /\ portal_page'.username \in StoredUsernames)
              => /\ portal_page'.provisioning = "none"
                 /\ portal_state'.accounts_created = Accounts
                 /\ sf_users' = sf_users]_vars

\* C26: create_service_account is all-or-nothing: when it returns False the
\* remote account is as it was, and when it returns True the user exists with
\* the key passed to the call and the requested role is granted.
C26_CreateAllOrNothing ==
    [][(/\ variant = "prod"
        /\ portal_page'.op = "single"
        /\ portal_page' # portal_page)
          => /\ portal_page'.provisioning = "failed" => sf_users' = sf_users
             /\ portal_page'.provisioning = "ok" =>
                   LET after == portal_state'.accounts_created
                       record == after[Len(after)]
                       user == sf_users'[record.username]
                   IN  /\ IsSome(user)
                       /\ Get(user).rsa_public_key = CleanKey(record.public_key)
                       /\ record.role # "" => record.role \in Get(user).roles]_vars

\* C29: while snowflake_connected is true the session holds a manager that is
\* itself connected; a failed connect leaves the session state as it was; a
\* create made while snowflake_connected is false leaves the remote account
\* alone and stores created_in_snowflake = false.
C29_ConnectedMeansManager ==
    /\ [](portal_state.snowflake_connected =>
             /\ IsSome(portal_state.sf_manager)
             /\ Usable(variant, Get(portal_state.sf_manager)))
    /\ [][/\ (portal_page'.op = "connect" /\ portal_page'.result = "failed")
                => portal_state' = portal_state
          /\ (~portal_state.snowflake_connected /\ portal_page'.op \in {"single", "bulk"})
                => /\ sf_users' = sf_users
                   /\ \A i \in DOMAIN portal_state'.accounts_created :
                         i > Len(Accounts)
                             => ~portal_state'.accounts_created[i].created_in_snowflake]_vars

C29_Witness ==
    /\ portal_page.op = "connect"
    /\ portal_page.result = "failed"
    /\ portal_state.snowflake_connected
    /\ \E i \in DOMAIN Accounts : ~Accounts[i].created_in_snowflake
    /\ \E i \in DOMAIN Accounts : Accounts[i].created_in_snowflake

-----------------------------------------------------------------------------
(* Properties of the sessions of the TAO portal.                           *)

\* the last run of session s issued a key pair
KeyIssued(s) == (RotateRan(s) \/ GenerateRan(s)) /\ page[s].result = "success"

\* the usernames of the accounts of the user logged in to session s
OwnUsernames(s) ==
    LET accounts == get_user_service_accounts(get_current_user(session_state[s]))
    IN  {accounts[i].username : i \in DOMAIN accounts}

\* C24: a successful rotate of account u changes only u's last rotation,
\* expiry and status: u's other fields and every other account of the user
\* are as they were stored.
C24_RotateFrame ==
    \A s \in Sessions :
        RotateDone(s) =>
            LET before == get_user_service_accounts(get_current_user(session_state[s]))
                after == page[s].user_accounts
                u == Get(session_state[s].selected_account).username
            IN  /\ DOMAIN after = DOMAIN before
                /\ \A i \in DOMAIN before :
                      IF before[i].username = u
                      THEN after[i] = [before[i] EXCEPT
                                          !.last_rotation = after[i].last_rotation,
                                          !.key_expiry = after[i].key_expiry,
                                          !.status = after[i].status]
                      ELSE after[i] = before[i]

C24_Witness ==
    /\ RotateDone("tab1")
    /\ Len(page["tab1"].user_accounts) = 3
    /\ PageAccount("tab1").key_expiry # Get(page["tab1"].base).key_expiry

\* C25: rotate and generate change the stored record: the dashboard of the
\* next run shows the account with the expiry and the last-rotation date the
\* rotate or generate gave it.
C25_RotationPersists ==
    [][\A s \in Sessions :
          (KeyIssued(s) /\ page'[s].kind = "dashboard") =>
              LET r == PageAccount(s)
                  later == Lookup(page'[s].user_accounts, r.username)
              IN  /\ IsSome(later)
                  /\ Get(later).key_expiry = r.key_expiry
                  /\ Get(later).last_rotation = r.last_rotation]_vars

\* C27: the selected account of a session is one of the accounts of the user
\* logged in to it, and an action page is shown only to a logged-in user.
C27_SelectionBelongsToUser ==
    \A s \in Sessions :
        /\ IsSome(session_state[s].selected_account) =>
              /\ LoggedIn(session_state[s])
              /\ Get(session_state[s].selected_account).username \in OwnUsernames(s)
        /\ page[s].kind \in {"generate", "rotate", "download"} =>
              /\ LoggedIn(session_state[s])
              /\ IsSome(session_state[s].selected_account)

C27_Witness ==
    /\ KeyIssued("tab1")
    /\ session_state["tab1"].current_user = "jane.smith"

\* C28: generate issues a key only for an account that has no key when the key
\* is issued, rotate and download act only on accounts that have one, and one
\* generate selection issues at most one key.
C28_GenerateOnlyWithoutKey ==
    /\ [](\A s \in Sessions :
             /\ (GenerateRan(s) /\ page[s].result = "success")
                   => ~Get(page[s].base).has_key
             /\ page[s].kind \in {"rotate", "download"}
                   => Get(session_state[s].selected_account).has_key)
    /\ [][\A s \in Sessions :
             (/\ GenerateRan(s) /\ page[s].result = "success"
              /\ page'[s].kind = "generate" /\ page'[s].result = "success")
                 => page'[s].downloads = page[s].downloads]_vars

\* C30: action is one of none, generate, rotate, download, and it is set
\* exactly when selected_account is set.
C30_ActionWithSelection ==
    \A s \in Sessions :
        /\ session_state[s].action \in {None, "generate", "rotate", "download"}
        /\ (session_state[s].action # None) <=> IsSome(session_state[s].selected_account)

C30_Witness ==
    /\ session_state["tab1"].action = "download"
    /\ IsSome(session_state["tab1"].selected_account)
    /\ key_seq > 0

====
